---- MODULE Spec2Model ----
(***************************************************************************)
(* The suppression engine of crashlens (src/crashlens/cli_new.py):         *)
(* SuppressionEngine with its ownership table, active list and suppressed  *)
(* list, driven by process_detections and get_suppression_summary.         *)
(*                                                                         *)
(* A detection is a Python dict; here it is a record whose fields are the  *)
(* keys the engine reads or writes.  `id' is not a key of the dict: it is  *)
(* the identity of the object that was fed in, kept by dict.copy().        *)
(***************************************************************************)
EXTENDS Integers, Sequences, FiniteSets, TLC

\* ------------------------------------------------------------------ bounds
\* Total number of detections fed to one engine, over all batches.
MaxFed == 3
\* Longest batch handed to one process_detections call.
MaxBatch == 2

\* ------------------------------------------------------- Python's values
\* The value None.
None == "<None>"
\* A key that is not in the dict.
Absent == "<absent>"
\* A detection without a (truthy) trace id: `if not trace_id'.
NoTrace == ""

\* ---------------------------------------------------------------- strings
UpperCase == "ABCDEFGHIJKLMNOPQRSTUVWXYZ"
LowerCase == "abcdefghijklmnopqrstuvwxyz"

\* one character of str.lower()
LowerChar(c) ==
    IF \E i \in 1..Len(UpperCase) : SubSeq(UpperCase, i, i) = c
    THEN LET i == CHOOSE j \in 1..Len(UpperCase) : SubSeq(UpperCase, j, j) = c
         IN  SubSeq(LowerCase, i, i)
    ELSE c

RECURSIVE StrLower(_)
\* str.lower()
StrLower(s) ==
    IF s = "" THEN ""
    ELSE LowerChar(SubSeq(s, 1, 1)) \o StrLower(SubSeq(s, 2, Len(s)))

RECURSIVE StrReplace(_, _, _)
\* str.replace(old, new) for a non-empty old: left to right, non-overlapping
StrReplace(s, old, new) ==
    IF Len(s) < Len(old) THEN s
    ELSE IF SubSeq(s, 1, Len(old)) = old
         THEN new \o StrReplace(SubSeq(s, Len(old) + 1, Len(s)), old, new)
         ELSE SubSeq(s, 1, 1) \o StrReplace(SubSeq(s, 2, Len(s)), old, new)

\* Python's `needle in hay' on two strings
StrIn(needle, hay) ==
    \E i \in 0..(Len(hay) - Len(needle)) :
        SubSeq(hay, i + 1, i + Len(needle)) = needle

\* ------------------------------------------------------ the priority table
DETECTOR_PRIORITY ==
    [n \in {"RetryLoopDetector", "FallbackStormDetector",
            "FallbackFailureDetector", "OverkillModelDetector"} |->
        CASE n = "RetryLoopDetector" -> 1
          [] n = "FallbackStormDetector" -> 2
          [] n = "FallbackFailureDetector" -> 3
          [] n = "OverkillModelDetector" -> 4]

\* the default of DETECTOR_PRIORITY.get(name, 999)
DefaultPriority == 999

\* DETECTOR_PRIORITY.get(name, 0): an unlisted detector ranked first
PriorityUnknownFirst(name) ==
    IF name \in DOMAIN DETECTOR_PRIORITY THEN DETECTOR_PRIORITY[name]
    ELSE 0

\* DETECTOR_PRIORITY.get(name, 999)
Priority(name) ==
    IF name \in DOMAIN DETECTOR_PRIORITY THEN DETECTOR_PRIORITY[name]
    ELSE DefaultPriority

\* ------------------------------------------------------------------ inputs
\* Detector names handed to process_detections: known ones and two that the
\* priority table does not list.
DetectorNames ==
    {"RetryLoopDetector", "OverkillModelDetector", "CustomDetector", "AuditDetector"}

\* Every detector name of the model.
AllNames == DetectorNames \cup DOMAIN DETECTOR_PRIORITY

TraceIds == {"t1", "t2"}

\* Values of a detection's `type': tags the reporters know, and None.
Types == {"overkill_model", "expensive_model_short", None}

\* The dicts a detector hands over: no engine metadata yet.  One of them
\* has no trace id and one has None for its type.
InputDetections ==
    {[trace_id |-> "t1", type |-> "overkill_model"],
     [trace_id |-> "t1", type |-> "expensive_model_short"],
     [trace_id |-> "t1", type |-> None],
     [trace_id |-> "t2", type |-> "overkill_model"],
     [trace_id |-> NoTrace, type |-> "expensive_model_short"]}

\* the batches of n detections
Batches(n) == [1..n -> InputDetections]

\* suppression_config as load_suppression_config returns it
EmptyConfig == <<>>
RuleConfig ==
    [k \in {"retryloop", "overkillmodel", "custom"} |->
        [suppress_if_retry_loop |-> (k # "custom")]]
Configs == {EmptyConfig, RuleConfig}

VARIABLES
    suppression_config,     \* self.suppression_config
    trace_ownership,        \* self.trace_ownership: trace id -> detector name
    suppressed_detections,  \* self.suppressed_detections
    active_detections,      \* self.active_detections
    returned,               \* the list the last completed process_detections returned
    summary,                \* the dict the last get_suppression_summary returned
    fed_by,                 \* history: fed_by[id] is the detector whose batch fed detection id
    call,                   \* history: the last call made on the engine
    interrupted,            \* history: some process_detections call has raised
    scan,                   \* the locals of scan(): its place in detector_configs,
                            \* all_active_detections, the detectors that failed,
                            \* and the figures of the report
    twin,                   \* a second engine, fed the same batches at other costs
    fed_batches             \* history: the detector and batch of each call, kept
                            \* by the runs that feed each known detector once

vars == <<suppression_config, trace_ownership, suppressed_detections,
          active_detections, returned, summary, fed_by, call, interrupted,
          scan, twin, fed_batches>>

\* ------------------------------------------------------------- the engine
\* self.suppression_config.get(key, {}).get('suppress_if_retry_loop', False)
ConfigFlag(config, key) ==
    IF key \in DOMAIN config THEN config[key].suppress_if_retry_loop ELSE FALSE

\* detector_name.lower().replace('detector', ''), for each detector name
ConfigKeys ==
    [n \in AllNames |-> StrReplace(StrLower(n), "detector", "")]

\* the key without lower(): detector_name.replace('detector', '')
ConfigKeyKeepsCase(detector_name) == StrReplace(detector_name, "detector", "")

\* detector_name.lower().replace('detector', '')
ConfigKey(detector_name) == ConfigKeys[detector_name]

\* dict.get(trace_id)
OwnerOf(ownership, trace_id) ==
    IF trace_id \in DOMAIN ownership THEN ownership[trace_id] ELSE None

\* the rule without its test of the owner of the trace
IsDetectorSuppressedAnyOwner(config, ownership, detector_name, trace_id) ==
    ConfigFlag(config, ConfigKey(detector_name))

\* SuppressionEngine._is_detector_suppressed
IsDetectorSuppressed(config, ownership, detector_name, trace_id) ==
    /\ ConfigFlag(config, ConfigKey(detector_name))
    /\ OwnerOf(ownership, trace_id) = "RetryLoopDetector"

\* the copy without its suppression_reason key set
SuppressedCopyWithoutReason(detection, detector_name, reason) ==
    [detection EXCEPT !.suppressed_by = detector_name,
                      !.detector = detector_name]

\* the dict _add_suppressed_detection appends: a copy with three keys set
SuppressedCopy(detection, detector_name, reason) ==
    [detection EXCEPT !.suppressed_by = detector_name,
                      !.suppression_reason = reason,
                      !.detector = detector_name]

\* _add_suppressed_detection assigning a new list instead of appending
AddSuppressedDetectionOverwrites(st, detection, detector_name, reason) ==
    [st EXCEPT !.suppressed = <<SuppressedCopy(detection, detector_name, reason)>>]

\* SuppressionEngine._add_suppressed_detection
AddSuppressedDetection(st, detection, detector_name, reason) ==
    [st EXCEPT !.suppressed = Append(@, SuppressedCopy(detection, detector_name, reason))]

\* detection.get('type', '').replace('_', '').replace(' ', '').lower()
NormalizedType(type) ==
    StrLower(StrReplace(StrReplace(type, "_", ""), " ", ""))

\* normalized type `in' old_owner.lower(), for each string type and each name
TypeMatches ==
    [type \in Types \ {None}, old_owner \in AllNames |->
        StrIn(NormalizedType(type), StrLower(old_owner))]

\* the test with the cost of the detection in it: free detections stay
BelongsToOldOwnerWhenCostly(detection, trace_id, old_owner) ==
    /\ detection.trace_id = trace_id
    /\ TypeMatches[detection.type, old_owner]
    /\ detection.waste_cost > 0

\* the test of the loop of _transfer_ownership, for a type that is a string
BelongsToOldOwner(detection, trace_id, old_owner) ==
    /\ detection.trace_id = trace_id
    /\ TypeMatches[detection.type, old_owner]

\* the test raises AttributeError: None has no replace
TypeRaises(detection, trace_id) ==
    /\ detection.trace_id = trace_id
    /\ detection.type = None

RECURSIVE SuppressAll(_, _, _, _)
\* the second loop of _transfer_ownership
SuppressAll(st, to_suppress, old_owner, reason) ==
    IF to_suppress = <<>> THEN st
    ELSE SuppressAll(AddSuppressedDetection(st, Head(to_suppress), old_owner, reason),
                     Tail(to_suppress), old_owner, reason)

\* _transfer_ownership without its last line, the assignment of remaining_active
TransferOwnershipKeepsActive(st, trace_id, old_owner, new_owner) ==
    IF \E i \in 1..Len(st.active) : TypeRaises(st.active[i], trace_id)
    THEN [st EXCEPT !.raised = TRUE]
    ELSE LET Moves(d) == BelongsToOldOwner(d, trace_id, old_owner)
             to_suppress == SelectSeq(st.active, Moves)
         IN  SuppressAll(st, to_suppress, old_owner, "superseded_by:" \o new_owner)

\* SuppressionEngine._transfer_ownership
TransferOwnership(st, trace_id, old_owner, new_owner) ==
    IF \E i \in 1..Len(st.active) : TypeRaises(st.active[i], trace_id)
    THEN [st EXCEPT !.raised = TRUE]
    ELSE LET Moves(d) == BelongsToOldOwner(d, trace_id, old_owner)
             Stays(d) == ~BelongsToOldOwner(d, trace_id, old_owner)
             to_suppress == SelectSeq(st.active, Moves)
             remaining_active == SelectSeq(st.active, Stays)
             moved == SuppressAll(st, to_suppress, old_owner,
                                  "superseded_by:" \o new_owner)
         IN  [moved EXCEPT !.active = remaining_active]

\* the accepted detection appended to self.active_detections at once and
\* left out of the list that is returned
AcceptWithoutReturn(st, detector_name, detection) ==
    [st EXCEPT !.ownership = (detection.trace_id :> detector_name) @@ @,
               !.active = Append(@, [detection EXCEPT !.suppressed_by = None])]

\* lines 90-93: claim the trace, mark the detection, keep it for the return
Accept(st, detector_name, detection) ==
    [st EXCEPT !.ownership = (detection.trace_id :> detector_name) @@ @,
               !.local = Append(@, [detection EXCEPT !.suppressed_by = None])]

\* line 81 with the comparison turned round
OutrankedReversed(current_priority, owner_priority) == current_priority < owner_priority

\* line 81: current_priority > owner_priority
Outranked(current_priority, owner_priority) == current_priority > owner_priority

\* line 85 with a tie taken for a win: current_priority <= owner_priority
OutranksOrTies(current_priority, owner_priority) == current_priority <= owner_priority

\* line 85: current_priority < owner_priority
Outranks(current_priority, owner_priority) == current_priority < owner_priority

\* the body of the loop of process_detections, for one detection
ProcessDetection(st, config, detector_name, detection) ==
    LET trace_id == detection.trace_id IN
    IF trace_id = NoTrace
    THEN [st EXCEPT !.local = Append(@, detection)]
    ELSE IF IsDetectorSuppressed(config, st.ownership, detector_name, trace_id)
    THEN AddSuppressedDetection(st, detection, detector_name, "disabled_by_config")
    ELSE IF trace_id \in DOMAIN st.ownership
    THEN LET current_owner == st.ownership[trace_id]
             current_priority == Priority(detector_name)
             owner_priority == Priority(current_owner)
         IN  IF Outranked(current_priority, owner_priority)
             THEN AddSuppressedDetection(st, detection, detector_name,
                      "higher_priority_detector:" \o current_owner)
             ELSE IF Outranks(current_priority, owner_priority)
             THEN LET t == TransferOwnership(st, trace_id, current_owner, detector_name)
                  IN  IF t.raised THEN t ELSE Accept(t, detector_name, detection)
             ELSE Accept(st, detector_name, detection)
    ELSE Accept(st, detector_name, detection)

RECURSIVE ProcessLoop(_, _, _, _)
\* the loop of process_detections; an exception ends it
ProcessLoop(st, config, detector_name, detections) ==
    IF detections = <<>> \/ st.raised THEN st
    ELSE LET owner == OwnerOf(st.ownership, Head(detections).trace_id)
             next == ProcessDetection(st, config, detector_name, Head(detections))
         IN  ProcessLoop([next EXCEPT !.seen = Append(@, owner)], config,
                         detector_name, Tail(detections))

\* the engine's fields and the locals of one process_detections call
EngineState ==
    [ownership |-> trace_ownership,
     suppressed |-> suppressed_detections,
     active |-> active_detections,
     local |-> <<>>,
     raised |-> FALSE,
     seen |-> <<>>]

\* the detection objects of a batch, with the identity of each
Fresh(batch) ==
    [i \in 1..Len(batch) |->
        [id |-> Len(fed_by) + i,
         suppressed_by |-> Absent,
         suppression_reason |-> Absent,
         detector |-> Absent] @@ batch[i]]

\* SuppressionEngine.process_detections
process_detections(detector_name, batch) ==
    /\ LET detections == Fresh(batch)
           st == ProcessLoop(EngineState, suppression_config, detector_name, detections)
       IN  /\ trace_ownership' = st.ownership
           /\ suppressed_detections' = st.suppressed
           /\ active_detections' =
                 IF st.raised THEN st.active ELSE st.active \o st.local
           /\ returned' = IF st.raised THEN returned ELSE st.local
           /\ fed_by' = fed_by \o [i \in 1..Len(batch) |-> detector_name]
           /\ call' = [op |-> "process_detections",
                       detector_name |-> detector_name,
                       detections |-> detections,
                       raised |-> st.raised,
                       seen |-> st.seen]
           /\ interrupted' = (interrupted \/ st.raised)
    /\ UNCHANGED <<suppression_config, summary>>

\* the summary holding self.trace_ownership itself, not a copy
DictAlias(d) == [alias |-> TRUE, items |-> d]

\* self.trace_ownership.copy(): a new dict with the same items
DictCopy(d) == [alias |-> FALSE, items |-> d]

\* what a holder of the returned dict reads in it
Items(ref) == IF ref.alias THEN trace_ownership ELSE ref.items

\* the count of a reason set to 1 every time
IncrementForgets(breakdown, reason) == 1

\* suppression_breakdown.get(reason, 0) + 1
Increment(breakdown, reason) ==
    IF reason \in DOMAIN breakdown THEN breakdown[reason] + 1 ELSE 1

\* detection.get('suppression_reason', 'unknown')
ReasonOf(detection) ==
    IF detection.suppression_reason = Absent THEN "unknown"
    ELSE detection.suppression_reason

RECURSIVE Breakdown(_, _)
\* the loop of get_suppression_summary that groups the suppressed list by reason
Breakdown(breakdown, suppressed) ==
    IF suppressed = <<>> THEN breakdown
    ELSE LET reason == ReasonOf(Head(suppressed))
         IN  Breakdown((reason :> Increment(breakdown, reason)) @@ breakdown,
                       Tail(suppressed))

\* the set without its filter: set(d.get('trace_id') for d in active + suppressed)
TracesOfUnfiltered(detections) ==
    {detections[i].trace_id : i \in 1..Len(detections)}

\* set(d.get('trace_id') for d in active + suppressed if d.get('trace_id'))
TracesOf(detections) ==
    {detections[i].trace_id : i \in 1..Len(detections)} \ {NoTrace}

\* the dict get_suppression_summary builds
SuppressionSummary(ownership, active, suppressed) ==
    [total_traces_analyzed |-> Cardinality(TracesOf(active \o suppressed)),
     active_issues |-> Len(active),
     suppressed_issues |-> Len(suppressed),
     suppression_breakdown |-> Breakdown(<<>>, suppressed),
     trace_ownership |-> DictCopy(ownership)]

\* SuppressionEngine.get_suppression_summary
get_suppression_summary ==
    /\ summary' = SuppressionSummary(trace_ownership, active_detections,
                                     suppressed_detections)
    /\ call' = [op |-> "get_suppression_summary",
                detector_name |-> None,
                detections |-> <<>>,
                raised |-> FALSE,
                seen |-> <<>>]
    /\ UNCHANGED <<suppression_config, trace_ownership, suppressed_detections,
                   active_detections, returned, fed_by, interrupted>>

\* SuppressionEngine.__init__
Init ==
    /\ suppression_config \in Configs
    /\ trace_ownership = <<>>
    /\ suppressed_detections = <<>>
    /\ active_detections = <<>>
    /\ returned = <<>>
    /\ summary = SuppressionSummary(<<>>, <<>>, <<>>)
    /\ fed_by = <<>>
    /\ call = [op |-> "__init__", detector_name |-> None, detections |-> <<>>,
               raised |-> FALSE, seen |-> <<>>]
    /\ interrupted = FALSE
    /\ scan = [index |-> 1, all_active_detections |-> <<>>, failed |-> {},
               report |-> None]
    /\ twin = [ownership |-> <<>>, suppressed |-> <<>>, active |-> <<>>,
               raised |-> FALSE]
    /\ fed_batches = <<>>

\* the lengths of batch the bounds leave room for
BatchLengths ==
    {n \in 1..MaxBatch : Len(fed_by) + n <= MaxFed}

Process ==
    \E detector_name \in DetectorNames, n \in BatchLengths :
        \E batch \in Batches(n) :
            /\ process_detections(detector_name, batch)
            /\ UNCHANGED <<scan, twin, fed_batches>>

Summary == get_suppression_summary /\ UNCHANGED <<scan, twin, fed_batches>>

Next == Process

\* process_detections calls, of any detector on any batch
Spec == Init /\ [][Next]_vars

\* ----------------------------------------- the engine and its summary
\* The detectors and detections of the runs that also read the summary.
SummaryNames == {"RetryLoopDetector", "OverkillModelDetector"}

SummaryDetections ==
    {[trace_id |-> "t1", type |-> "overkill_model"],
     [trace_id |-> "t2", type |-> "overkill_model"],
     [trace_id |-> NoTrace, type |-> "expensive_model_short"]}

ProcessKnown ==
    \E detector_name \in SummaryNames, n \in BatchLengths :
        \E batch \in [1..n -> SummaryDetections] :
            /\ process_detections(detector_name, batch)
            /\ UNCHANGED <<scan, twin, fed_batches>>

NextSummary == ProcessKnown \/ Summary

\* process_detections calls with get_suppression_summary calls between them
SpecSummary == Init /\ [][NextSummary]_vars

\* ------------------------------------------------------------------ scan()
\* The loop of scan() over detector_configs.  The detector classes are not
\* part of the sources: a detector is whatever detect() may do, which is to
\* raise or to return a list of detections (whether or not it was handed
\* the already_flagged trace ids).

\* the detectors listed from the lowest priority to the highest
detector_configs_descending ==
    <<"OverkillModelDetector", "FallbackFailureDetector",
      "FallbackStormDetector", "RetryLoopDetector">>

\* the detector names of detector_configs, in its order
detector_configs ==
    <<"RetryLoopDetector", "FallbackStormDetector",
      "FallbackFailureDetector", "OverkillModelDetector">>

\* the lengths of raw_detections the bounds leave room for; a detector may
\* find nothing
ScanLengths ==
    {n \in 0..MaxBatch : Len(fed_by) + n <= MaxFed}

\* an except clause that ends the loop
ContinueStops(index) == Len(detector_configs) + 1

\* `continue' in the except clause: the loop goes on with the next detector
Continue(index) == index + 1

\* the except clause: a warning, nothing else
Failed(detector_name) ==
    [scan EXCEPT !.index = Continue(@), !.failed = @ \cup {detector_name}]

\* detector.detect raises
DetectorFails(detector_name) ==
    /\ scan' = Failed(detector_name)
    /\ UNCHANGED <<suppression_config, trace_ownership, suppressed_detections,
                   active_detections, returned, summary, fed_by, call,
                   interrupted, twin, fed_batches>>

\* all_active_detections assigned the returned list instead of extended by it
ExtendOverwrites(all_active_detections, active) == active

\* all_active_detections.extend(active_detections)
Extend(all_active_detections, active) == all_active_detections \o active

\* detector.detect returns raw_detections and the engine processes them
DetectorRuns(detector_name, raw_detections) ==
    /\ process_detections(detector_name, raw_detections)
    /\ scan' = IF call'.raised THEN Failed(detector_name)
               ELSE [scan EXCEPT !.index = @ + 1,
                                 !.all_active_detections = Extend(@, returned')]
    /\ UNCHANGED <<twin, fed_batches>>

\* what _generate_transparent_output draws its figures from: the issues
\* found from the summary, the totals from the list it is handed
TransparentOutput(all_active_detections, suppression_summary) ==
    [issues_found |-> suppression_summary.active_issues,
     totals_over |-> all_active_detections]

ScanFails ==
    /\ scan.index <= Len(detector_configs)
    /\ DetectorFails(detector_configs[scan.index])

ScanRuns ==
    /\ scan.index <= Len(detector_configs)
    /\ \E n \in ScanLengths :
          \E raw_detections \in Batches(n) :
              DetectorRuns(detector_configs[scan.index], raw_detections)

\* after the loop: the summary is read and the report made
ScanReports ==
    /\ scan.index = Len(detector_configs) + 1
    /\ get_suppression_summary
    /\ scan' = [scan EXCEPT !.index = @ + 1,
                            !.report = TransparentOutput(
                                           scan.all_active_detections, summary')]
    /\ UNCHANGED <<twin, fed_batches>>

NextScan == ScanFails \/ ScanRuns \/ ScanReports

\* one run of scan(): every detector of detector_configs once, in order
SpecScan == Init /\ [][NextScan]_vars

\* ------------------------------------------------ two runs at other costs
\* Two engines under one configuration, handed the same batches by the same
\* detectors; the detections of the second engine differ from those of the
\* first in waste_cost and waste_tokens only, each of them with any of Costs.
CostNames == {"RetryLoopDetector", "OverkillModelDetector"}

\* the waste_cost and waste_tokens of a detection
Costs ==
    {[waste_cost |-> 0, waste_tokens |-> 0],
     [waste_cost |-> 5, waste_tokens |-> 900]}

CostDetections ==
    {[trace_id |-> "t1", type |-> "overkill_model",
      waste_cost |-> 0, waste_tokens |-> 0],
     [trace_id |-> "t1", type |-> "expensive_model_short",
      waste_cost |-> 5, waste_tokens |-> 900],
     [trace_id |-> "t2", type |-> "overkill_model",
      waste_cost |-> 0, waste_tokens |-> 0]}

\* the batch with other values under waste_cost and waste_tokens
Recosted(batch, costs) ==
    [i \in 1..Len(batch) |->
        [batch[i] EXCEPT !.waste_cost = costs[i].waste_cost,
                         !.waste_tokens = costs[i].waste_tokens]]

\* the fields of the second engine and the locals of one of its calls
TwinState ==
    [ownership |-> twin.ownership,
     suppressed |-> twin.suppressed,
     active |-> twin.active,
     local |-> <<>>,
     raised |-> FALSE,
     seen |-> <<>>]

\* SuppressionEngine.process_detections on the second engine
process_twin(detector_name, batch) ==
    LET st == ProcessLoop(TwinState, suppression_config, detector_name, Fresh(batch))
    IN  twin' = [ownership |-> st.ownership,
                 suppressed |-> st.suppressed,
                 active |-> IF st.raised THEN st.active ELSE st.active \o st.local,
                 raised |-> (twin.raised \/ st.raised)]

ProcessPair ==
    \E detector_name \in CostNames, n \in BatchLengths :
        \E batch \in [1..n -> CostDetections], costs \in [1..n -> Costs] :
            /\ process_detections(detector_name, batch)
            /\ process_twin(detector_name, Recosted(batch, costs))
            /\ UNCHANGED <<scan, fed_batches>>

NextCost == ProcessPair

\* the same calls on two engines, at costs of their own
SpecCost == Init /\ [][NextCost]_vars

\* ------------------------------------- the known detectors in any order
\* One batch from each detector of the priority table, handed to one engine
\* in any order.
KnownNames == DOMAIN DETECTOR_PRIORITY

OrderDetections ==
    {[trace_id |-> "t1", type |-> "overkill_model"],
     [trace_id |-> "t1", type |-> None],
     [trace_id |-> "t2", type |-> "overkill_model"]}

\* the detectors that have handed in their batch
FedNames == {fed_batches[i].detector_name : i \in 1..Len(fed_batches)}

FeedsOnce ==
    \E detector_name \in KnownNames \ FedNames, n \in ScanLengths :
        \E batch \in [1..n -> OrderDetections] :
            /\ process_detections(detector_name, batch)
            /\ fed_batches' = Append(fed_batches,
                                     [detector_name |-> detector_name,
                                      batch |-> batch])
            /\ UNCHANGED <<scan, twin>>

NextOrder == FeedsOnce

\* the four batches in every order
SpecOrder == Init /\ [][NextOrder]_vars

\* ------------------------------------------------------------ properties
\* the identities of the detections of a list
Ids(detections) == {detections[i].id : i \in 1..Len(detections)}

\* the last call was a process_detections call
Processed == call.op = "process_detections"

\* C1: when no call has raised, every active detection that carries a trace
\* id was fed in by the detector the ownership table records for that trace.
C1_SingleOwnership ==
    ~interrupted =>
        \A i \in 1..Len(active_detections) :
            LET d == active_detections[i] IN
            d.trace_id # NoTrace =>
                /\ d.trace_id \in DOMAIN trace_ownership
                /\ trace_ownership[d.trace_id] = fed_by[d.id]

\* C2: when no call has raised, the detections fed in are exactly those of
\* the active list and the suppressed list, each of them once.
C2_Partition ==
    ~interrupted =>
        /\ Ids(active_detections) \cap Ids(suppressed_detections) = {}
        /\ Ids(active_detections) \cup Ids(suppressed_detections) = 1..Len(fed_by)
        /\ Len(active_detections) + Len(suppressed_detections) = Len(fed_by)

\* three detections fed, one moved by a transfer, one suppressed on arrival
C2_Witness ==
    /\ ~interrupted
    /\ Len(fed_by) = 3
    /\ Len(active_detections) = 1
    /\ \E i, j \in 1..Len(suppressed_detections) :
          /\ suppressed_detections[i].suppression_reason =
                "superseded_by:RetryLoopDetector"
          /\ suppressed_detections[j].suppression_reason =
                "higher_priority_detector:OverkillModelDetector"

\* C3: a detection of the suppressed list stays in it and is not in the
\* active list after any further call.
C3_SuppressionMonotone ==
    [][\A id \in Ids(suppressed_detections) :
          /\ id \in Ids(suppressed_detections')
          /\ id \notin Ids(active_detections')]_vars

\* a detection suppressed by an earlier call, and a later call that claimed
\* its trace by a transfer
C3_Witness ==
    /\ Processed
    /\ \E j, k \in 1..Len(suppressed_detections), a \in 1..Len(active_detections) :
          /\ suppressed_detections[j].id < call.detections[1].id
          /\ suppressed_detections[j].suppression_reason =
                "higher_priority_detector:OverkillModelDetector"
          /\ suppressed_detections[k].suppression_reason =
                "superseded_by:" \o call.detector_name
          /\ active_detections[a].id = call.detections[1].id
          /\ active_detections[a].trace_id = suppressed_detections[j].trace_id

\* C4: a completed batch of a detector H that holds a detection for a trace
\* owned by a detector L of numerically greater rank leaves the trace owned
\* by H, every active detection L fed in for the trace suppressed with
\* superseded_by:H and out of the active list, and a detection of the batch
\* active for the trace.
C4_Upgrade ==
    [][\A t \in DOMAIN trace_ownership :
          LET L == trace_ownership[t]
              H == call'.detector_name
          IN  (/\ call'.op = "process_detections"
               /\ ~call'.raised
               /\ Priority(H) < Priority(L)
               /\ \E j \in 1..Len(call'.detections) : call'.detections[j].trace_id = t)
              =>
              /\ trace_ownership'[t] = H
              /\ \A i \in 1..Len(active_detections) :
                    LET d == active_detections[i] IN
                    (d.trace_id = t /\ fed_by[d.id] = L) =>
                        /\ d.id \notin Ids(active_detections')
                        /\ \E k \in 1..Len(suppressed_detections') :
                              /\ suppressed_detections'[k].id = d.id
                              /\ suppressed_detections'[k].suppression_reason =
                                    "superseded_by:" \o H
              /\ \E a \in 1..Len(active_detections') :
                    /\ active_detections'[a].trace_id = t
                    /\ active_detections'[a].id \in Ids(call'.detections)]_vars

\* the configuration key of each detector name: the name in lower case
\* without its suffix
RuleKey ==
    [n \in DetectorNames |->
        CASE n = "RetryLoopDetector" -> "retryloop"
          [] n = "OverkillModelDetector" -> "overkillmodel"
          [] n = "CustomDetector" -> "custom"
          [] n = "AuditDetector" -> "audit"]

\* the configuration sets suppress_if_retry_loop for the detector
Configured(detector_name) ==
    /\ RuleKey[detector_name] \in DOMAIN suppression_config
    /\ suppression_config[RuleKey[detector_name]].suppress_if_retry_loop

\* the detections of a list that carry the trace id
OnTrace(detections, trace_id) ==
    LET Carries(d) == d.trace_id = trace_id IN SelectSeq(detections, Carries)

\* detection j of the call met the owner of its trace, outranked by it, and
\* the configuration rule did not apply
Downgraded(c, j) ==
    /\ c.detections[j].trace_id # NoTrace
    /\ c.seen[j] # None
    /\ Priority(c.detector_name) > Priority(c.seen[j])
    /\ ~(Configured(c.detector_name) /\ c.seen[j] = "RetryLoopDetector")

\* C5: a detection that reaches the engine while its trace is owned by a
\* detector of numerically smaller rank, the configuration rule not applying,
\* is suppressed with higher_priority_detector:<owner>, is neither returned
\* nor active, and leaves the owner and the active detections of its trace as
\* they were; a batch of such detections only leaves the ownership table and
\* the active list unchanged.
C5_Downgrade ==
    [][call'.op = "process_detections" =>
        /\ \A j \in 1..Len(call'.seen) :
              LET d == call'.detections[j]
                  O == call'.seen[j]
              IN  Downgraded(call', j) =>
                    /\ \E k \in 1..Len(suppressed_detections') :
                          /\ suppressed_detections'[k].id = d.id
                          /\ suppressed_detections'[k].suppression_reason =
                                "higher_priority_detector:" \o O
                          /\ suppressed_detections'[k].detector = call'.detector_name
                    /\ d.id \notin Ids(active_detections')
                    /\ d.id \notin Ids(returned')
                    /\ trace_ownership[d.trace_id] = O
                    /\ trace_ownership'[d.trace_id] = O
                    /\ OnTrace(active_detections', d.trace_id) =
                          OnTrace(active_detections, d.trace_id)
        /\ (\A j \in 1..Len(call'.detections) :
                j <= Len(call'.seen) /\ Downgraded(call', j))
           => /\ active_detections' = active_detections
              /\ trace_ownership' = trace_ownership
              /\ returned' = <<>>]_vars

\* a detection of OverkillModelDetector suppressed on a trace RetryLoopDetector
\* owns, under the empty configuration, with another trace left alone
C5_Witness ==
    /\ Processed
    /\ suppression_config = EmptyConfig
    /\ call.detector_name = "OverkillModelDetector"
    /\ Len(call.seen) = 1
    /\ Downgraded(call, 1)
    /\ call.seen[1] = "RetryLoopDetector"
    /\ Len(active_detections) = 2
    /\ suppressed_detections[Len(suppressed_detections)].suppression_reason =
          "higher_priority_detector:RetryLoopDetector"

\* C6: a detection of a detector the configuration sets suppress_if_retry_loop
\* for, reaching the engine while RetryLoopDetector owns its trace, is
\* suppressed with disabled_by_config and the trace stays with
\* RetryLoopDetector.
C6_ConfigSuppression ==
    Processed =>
        \A j \in 1..Len(call.seen) :
            LET d == call.detections[j] IN
            (Configured(call.detector_name) /\ call.seen[j] = "RetryLoopDetector") =>
                /\ \E k \in 1..Len(suppressed_detections) :
                      /\ suppressed_detections[k].id = d.id
                      /\ suppressed_detections[k].suppression_reason = "disabled_by_config"
                /\ d.id \notin Ids(active_detections)
                /\ trace_ownership[d.trace_id] = "RetryLoopDetector"

\* a configured OverkillModelDetector reporting a trace RetryLoopDetector owns
C6_Witness ==
    /\ Processed
    /\ call.detector_name = "OverkillModelDetector"
    /\ Configured("OverkillModelDetector")
    /\ \E j \in 1..Len(call.seen) :
          /\ call.seen[j] = "RetryLoopDetector"
          /\ \E k \in 1..Len(suppressed_detections) :
                /\ suppressed_detections[k].id = call.detections[j].id
                /\ suppressed_detections[k].suppression_reason = "disabled_by_config"

\* C7: a detection without a trace id that reached the engine is returned and
\* is in the active list after the call; none is ever in the suppressed list
\* and none gives the ownership table an entry.
C7_NoTraceAccepted ==
    /\ \A k \in 1..Len(suppressed_detections) :
          suppressed_detections[k].trace_id # NoTrace
    /\ NoTrace \notin DOMAIN trace_ownership
    /\ Processed =>
          \A j \in 1..Len(call.seen) :
              call.detections[j].trace_id = NoTrace =>
                  /\ call.detections[j].id \in Ids(returned)
                  /\ call.detections[j].id \in Ids(active_detections)

\* C8: after a completed batch every active detection has suppressed_by set
\* to None and every suppressed detection has a detector and a reason.
C8_Tagged ==
    (Processed /\ ~call.raised) =>
        /\ \A i \in 1..Len(active_detections) :
              active_detections[i].suppressed_by = None
        /\ \A k \in 1..Len(suppressed_detections) :
              /\ suppressed_detections[k].detector # Absent
              /\ suppressed_detections[k].suppression_reason # Absent

RECURSIVE SumOver(_, _)
\* the sum of the values of f over the keys S
SumOver(f, S) ==
    IF S = {} THEN 0
    ELSE LET x == CHOOSE y \in S : TRUE IN f[x] + SumOver(f, S \ {x})

\* the trace ids carried by a detection of either list
TracesSeen ==
    {t \in TraceIds :
        \/ \E i \in 1..Len(active_detections) : active_detections[i].trace_id = t
        \/ \E k \in 1..Len(suppressed_detections) : suppressed_detections[k].trace_id = t}

\* C9: the summary a call returns agrees with the engine: the two counts are
\* the lengths of the lists, the breakdown sums to the length of the
\* suppressed list, the traces are those carried by a detection of either list.
C9_SummaryConsistent ==
    call.op = "get_suppression_summary" =>
        /\ summary.suppressed_issues = Len(suppressed_detections)
        /\ summary.active_issues = Len(active_detections)
        /\ SumOver(summary.suppression_breakdown,
                   DOMAIN summary.suppression_breakdown) = Len(suppressed_detections)
        /\ summary.total_traces_analyzed = Cardinality(TracesSeen)

\* a summary of an engine with two detections suppressed for one reason
C9_Witness ==
    /\ call.op = "get_suppression_summary"
    /\ summary.active_issues = 1
    /\ summary.total_traces_analyzed = 1
    /\ \E r \in DOMAIN summary.suppression_breakdown :
          summary.suppression_breakdown[r] = 2

\* C10: a get_suppression_summary call changes none of the ownership table
\* and the two lists, returns what the call before it returned when nothing
\* came between, and the ownership table it returned reads the same after
\* every later process_detections call.
C10_SummaryPureRead ==
    [][/\ call'.op = "get_suppression_summary" =>
            /\ trace_ownership' = trace_ownership
            /\ active_detections' = active_detections
            /\ suppressed_detections' = suppressed_detections
            /\ (call.op = "get_suppression_summary" => summary' = summary)
       /\ call'.op = "process_detections" =>
            Items(summary.trace_ownership)' = Items(summary.trace_ownership)]_vars

\* a summary taken with one trace owned, and a later call that moved the trace
\* to another owner
C10_Witness ==
    /\ Processed
    /\ "t1" \in DOMAIN Items(summary.trace_ownership)
    /\ Items(summary.trace_ownership)["t1"] = "OverkillModelDetector"
    /\ trace_ownership["t1"] = "RetryLoopDetector"

\* C11: no process_detections call raises, whatever fields the detections
\* it is handed or the detections of the active list lack.
C11_NeverRaises == Processed => ~call.raised

\* C12: in a run of scan(), the step in which a detector fails leaves the
\* ownership table, the active list and the suppressed list as they were,
\* with no ownership entry and no detection of that detector in them, and
\* hands the loop over to the next detector of detector_configs.
C12_FailureIsolated ==
    [][(scan'.failed # scan.failed) =>
          LET failed == detector_configs[scan.index] IN
          /\ scan'.failed = scan.failed \cup {failed}
          /\ trace_ownership' = trace_ownership
          /\ active_detections' = active_detections
          /\ suppressed_detections' = suppressed_detections
          /\ \A t \in DOMAIN trace_ownership' : trace_ownership'[t] # failed
          /\ \A id \in Ids(active_detections') \cup Ids(suppressed_detections') :
                fed_by'[id] # failed
          /\ scan'.index = scan.index + 1]_vars

\* a detector failed between two detectors whose detections were processed
C12_Witness ==
    /\ scan.failed = {"FallbackStormDetector"}
    /\ scan.index > Len(detector_configs)
    /\ Processed
    /\ call.detector_name = "OverkillModelDetector"
    /\ \E i \in 1..Len(active_detections), j \in 1..Len(suppressed_detections) :
          /\ fed_by[active_detections[i].id] = "RetryLoopDetector"
          /\ fed_by[suppressed_detections[j].id] = "OverkillModelDetector"

\* the detectors that fed in a detection of a trace
Producers(detections, trace_id) ==
    {fed_by[detections[i].id] :
        i \in {j \in 1..Len(detections) : detections[j].trace_id = trace_id}}

\* C13: when scan() has handled its four detectors, the active detections
\* of a trace are those of one detector, the one of highest priority among
\* the detectors that fed in a detection of the trace, and the detections
\* the other detectors fed in for the trace are in the suppressed list.
C13_HighestPriorityOwns ==
    scan.index > Len(detector_configs) =>
        \A t \in TraceIds :
            LET flagged == Producers(active_detections \o suppressed_detections, t)
                best == CHOOSE b \in flagged :
                            \A o \in flagged : Priority(b) <= Priority(o)
            IN  flagged # {} =>
                  /\ Producers(active_detections, t) = {best}
                  /\ \A id \in 1..Len(fed_by) :
                        id \in Ids(active_detections) \cup Ids(suppressed_detections)
                  /\ \A id \in Ids(OnTrace(active_detections \o suppressed_detections, t)) :
                        fed_by[id] # best =>
                            /\ id \in Ids(suppressed_detections)
                            /\ id \notin Ids(active_detections)

\* three detectors flagged one trace; the first of them owns it
C13_Witness ==
    /\ scan.index > Len(detector_configs)
    /\ scan.failed = {}
    /\ Producers(active_detections, "t1") = {"RetryLoopDetector"}
    /\ Producers(suppressed_detections, "t1") =
          {"FallbackStormDetector", "OverkillModelDetector"}

\* detection j of the call met an owner of its trace of the same rank as its
\* own detector, and the configuration rule did not apply
Tied(c, j) ==
    /\ c.detections[j].trace_id # NoTrace
    /\ c.seen[j] # None
    /\ Priority(c.detector_name) = Priority(c.seen[j])
    /\ ~(Configured(c.detector_name) /\ c.seen[j] = "RetryLoopDetector")

\* C14: a detection that meets an owner of its trace of the same rank is
\* accepted, and a batch of such detections moves no active detection to
\* the suppressed list; and in every state two active detections of one
\* trace that were fed in by different detectors are of detectors of equal
\* rank.
C14_CoOwnershipAtEqualRank ==
    [][/\ (call'.op = "process_detections" /\ ~call'.raised) =>
            /\ \A j \in 1..Len(call'.seen) :
                  Tied(call', j) =>
                      /\ call'.detections[j].id \in Ids(active_detections')
                      /\ call'.detections[j].id \notin Ids(suppressed_detections')
            /\ (\A j \in 1..Len(call'.seen) : Tied(call', j))
               => Ids(active_detections) \subseteq Ids(active_detections')
       /\ \A i, j \in 1..Len(active_detections') :
             LET a == active_detections'[i]
                 b == active_detections'[j]
             IN  (a.trace_id # NoTrace /\ a.trace_id = b.trace_id) =>
                     Priority(fed_by'[a.id]) = Priority(fed_by'[b.id])]_vars

\* C15: the `detector' tag of every detection of the suppressed list names
\* the detector in whose batch the detection was fed in.
C15_TagNamesProducer ==
    \A k \in 1..Len(suppressed_detections) :
        suppressed_detections[k].detector = fed_by[suppressed_detections[k].id]

\* the three forms of a suppression reason
Reasons ==
    {"disabled_by_config"}
        \cup {"higher_priority_detector:" \o n : n \in AllNames}
        \cup {"superseded_by:" \o n : n \in AllNames}

\* C16: after every call, raising or not, the suppressed list is what it was
\* before the call followed by the detections the call suppressed, and the
\* reason of each of its detections is disabled_by_config,
\* higher_priority_detector:<name> or superseded_by:<name>.
C16_AppendOnlyReasons ==
    [][/\ Len(suppressed_detections) <= Len(suppressed_detections')
       /\ SubSeq(suppressed_detections', 1, Len(suppressed_detections)) =
             suppressed_detections
       /\ \A k \in 1..Len(suppressed_detections') :
             suppressed_detections'[k].suppression_reason \in Reasons]_vars

\* a call appended a detection, suppressed under the configuration rule, to
\* a suppressed list that held a detection superseded in an earlier call
C16_Witness ==
    /\ Processed
    /\ Len(suppressed_detections) = 2
    /\ suppressed_detections[1].id < call.detections[1].id
    /\ suppressed_detections[1].suppression_reason =
          "superseded_by:RetryLoopDetector"
    /\ suppressed_detections[2].id = call.detections[1].id
    /\ suppressed_detections[2].suppression_reason = "disabled_by_config"

\* detection j of the call met an owner of its trace that its detector
\* outranks: the case in which the engine transfers the trace
Upgraded(c, j) ==
    /\ c.detections[j].trace_id # NoTrace
    /\ c.seen[j] # None
    /\ Priority(c.detector_name) < Priority(c.seen[j])

\* C17: a completed call takes out of the active list exactly the
\* detections that the old owner of a trace it transferred had fed in for
\* that trace, each of them entering the suppressed list with
\* superseded_by:<new owner>; the other detections that were active stay
\* active, in the order they had.
C17_TransferFrame ==
    [][(call'.op = "process_detections" /\ ~call'.raised) =>
          LET Moved(d) ==
                  \E j \in 1..Len(call'.seen) :
                      /\ Upgraded(call', j)
                      /\ d.trace_id = call'.detections[j].trace_id
                      /\ fed_by[d.id] = call'.seen[j]
              Stays(d) == ~Moved(d)
              Old(d) == d.id <= Len(fed_by)
          IN  /\ SelectSeq(active_detections', Old) =
                    SelectSeq(active_detections, Stays)
              /\ \A i \in 1..Len(active_detections) :
                    Moved(active_detections[i]) =>
                        \E k \in 1..Len(suppressed_detections') :
                            /\ suppressed_detections'[k].id = active_detections[i].id
                            /\ suppressed_detections'[k].suppression_reason =
                                  "superseded_by:" \o call'.detector_name]_vars

\* the identities of the detections of a list, in its order
IdSeq(detections) == [i \in 1..Len(detections) |-> detections[i].id]

\* C18: a call that completes returns the detections of its batch that it
\* did not suppress, in the order of the batch; the active list is then what
\* it was, without the detections the call moved to the suppressed list as
\* superseded, followed by the returned list; and the trace of each returned
\* detection that carries a trace id is owned by the detector of the batch.
C18_ReturnsAccepted ==
    [][(call'.op = "process_detections" /\ ~call'.raised) =>
          LET NotSuppressed(d) == d.id \notin Ids(suppressed_detections')
              Superseded(d) ==
                  \E k \in 1..Len(suppressed_detections') :
                      /\ suppressed_detections'[k].id = d.id
                      /\ suppressed_detections'[k].suppression_reason =
                            "superseded_by:" \o call'.detector_name
              Kept(d) == ~Superseded(d)
          IN  /\ IdSeq(returned') =
                    IdSeq(SelectSeq(call'.detections, NotSuppressed))
              /\ \A i \in 1..Len(returned') :
                    \E j \in 1..Len(call'.detections) :
                        /\ call'.detections[j].id = returned'[i].id
                        /\ call'.detections[j].trace_id = returned'[i].trace_id
                        /\ call'.detections[j].type = returned'[i].type
              /\ active_detections' =
                    SelectSeq(active_detections, Kept) \o returned'
              /\ \A i \in 1..Len(returned') :
                    returned'[i].trace_id # NoTrace =>
                        /\ returned'[i].trace_id \in DOMAIN trace_ownership'
                        /\ trace_ownership'[returned'[i].trace_id] =
                              call'.detector_name]_vars

\* a batch of two: the first detection took its trace from another detector,
\* whose detection left the active list, the second was suppressed
C18_Witness ==
    /\ Processed
    /\ ~call.raised
    /\ Len(call.detections) = 2
    /\ IdSeq(returned) = <<2>>
    /\ IdSeq(active_detections) = <<2>>
    /\ IdSeq(suppressed_detections) = <<1, 3>>
    /\ suppressed_detections[1].suppression_reason =
          "superseded_by:" \o call.detector_name

\* the reason with which a detection is in the suppressed list, None if it
\* is not in it
ReasonGiven(id) ==
    IF id \in Ids(suppressed_detections)
    THEN LET k == CHOOSE i \in 1..Len(suppressed_detections) :
                      suppressed_detections[i].id = id
         IN  suppressed_detections[k].suppression_reason
    ELSE None

\* C19: a detection has the reason disabled_by_config only if the
\* configuration sets suppress_if_retry_loop for the detector that fed it in
\* and RetryLoopDetector owned its trace when it was processed; with the
\* empty configuration no detection has that reason; and a detection of a
\* configured detector whose trace was unowned or owned by another detector
\* is accepted or suppressed as the ranks alone say.
C19_ConfigRuleOnly ==
    /\ \A k \in 1..Len(suppressed_detections) :
          LET s == suppressed_detections[k] IN
          s.suppression_reason = "disabled_by_config" =>
              /\ suppression_config # EmptyConfig
              /\ Configured(fed_by[s.id])
              /\ OwnerOf(trace_ownership, s.trace_id) = "RetryLoopDetector"
    /\ Processed =>
          \A j \in 1..Len(call.seen) :
              LET d == call.detections[j]
                  X == call.detector_name
                  O == call.seen[j]
              IN  /\ ReasonGiven(d.id) = "disabled_by_config" =>
                        Configured(X) /\ O = "RetryLoopDetector"
                  /\ (d.trace_id # NoTrace /\ Configured(X) /\ O # "RetryLoopDetector") =>
                        /\ O = None =>
                              /\ ReasonGiven(d.id) = None
                              /\ OwnerOf(trace_ownership, d.trace_id) = X
                        /\ (O # None /\ Priority(X) > Priority(O)) =>
                              ReasonGiven(d.id) = "higher_priority_detector:" \o O
                        /\ (O # None /\ Priority(X) <= Priority(O)) =>
                              ReasonGiven(d.id) = None

\* a configured detector fed in a detection of a trace RetryLoopDetector
\* owns and a detection of an unowned trace
C19_Witness ==
    /\ Processed
    /\ Configured(call.detector_name)
    /\ call.detector_name = "OverkillModelDetector"
    /\ call.seen = <<"RetryLoopDetector", None>>
    /\ ReasonGiven(call.detections[1].id) = "disabled_by_config"
    /\ call.detections[2].id \in Ids(active_detections)

\* a detection without its waste_cost and waste_tokens
Uncosted(d) ==
    [k \in DOMAIN d \ {"waste_cost", "waste_tokens"} |-> d[k]]

\* the detections of a list without their costs, in its order
UncostedSeq(detections) ==
    [i \in 1..Len(detections) |-> Uncosted(detections[i])]

\* C20: two engines handed the same batches in the same order, differing
\* in waste_cost and waste_tokens only, have the same ownership table, the
\* same detections active and the same detections suppressed, with the same
\* reasons and tags.
C20_CostBlind ==
    /\ twin.ownership = trace_ownership
    /\ UncostedSeq(twin.active) = UncostedSeq(active_detections)
    /\ UncostedSeq(twin.suppressed) = UncostedSeq(suppressed_detections)
    /\ twin.raised = interrupted

\* the two engines hold a detection at different costs in their active lists
\* and another in their suppressed lists, after a transfer
C20_Witness ==
    /\ \E i \in 1..Len(active_detections) :
          active_detections[i].waste_cost # twin.active[i].waste_cost
    /\ \E k \in 1..Len(suppressed_detections) :
          /\ suppressed_detections[k].waste_cost # twin.suppressed[k].waste_cost
          /\ suppressed_detections[k].suppression_reason =
                "superseded_by:RetryLoopDetector"
    /\ \E k \in 1..Len(suppressed_detections) :
          suppressed_detections[k].suppression_reason =
              "higher_priority_detector:RetryLoopDetector"

\* C21: in a run of scan(), whichever detectors fail, no detection meets an
\* owner that its detector outranks, so no transfer is made; no call
\* shortens the active list; and once the loop is over
\* all_active_detections, over which the report takes its totals, is the
\* active list of the engine, whose length the report gives as issues found.
C21_ScanListsAgree ==
    [][/\ call'.op = "process_detections" =>
             \A j \in 1..Len(call'.seen) : ~Upgraded(call', j)
       /\ Len(active_detections) <= Len(active_detections')
       /\ SubSeq(active_detections', 1, Len(active_detections)) = active_detections
       /\ scan'.index > Len(detector_configs) =>
             scan'.all_active_detections = active_detections'
       /\ scan'.index > Len(detector_configs) + 1 =>
             /\ scan'.report.totals_over = active_detections'
             /\ scan'.report.issues_found = Len(scan'.report.totals_over)]_vars

\* the report of a run in which a detector failed, two detectors had a
\* detection accepted and one detection was suppressed
C21_Witness ==
    /\ scan.index > Len(detector_configs) + 1
    /\ scan.failed # {}
    /\ Cardinality(Producers(active_detections, "t1")
                       \cup Producers(active_detections, "t2")) = 2
    /\ Len(suppressed_detections) = 1
    /\ scan.report.issues_found = 2

\* the rank of each detector name: that of the priority table, 999 for a
\* name the table does not list
Rank ==
    [n \in AllNames |->
        CASE n = "RetryLoopDetector" -> 1
          [] n = "FallbackStormDetector" -> 2
          [] n = "FallbackFailureDetector" -> 3
          [] n = "OverkillModelDetector" -> 4
          [] OTHER -> 999]

\* C22: a call, raising or not, leaves every trace id of the ownership table
\* in it, owned by a detector whose rank is numerically less than or equal
\* to that of the owner before the call.
C22_OwnershipMovesUp ==
    [][\A t \in DOMAIN trace_ownership :
          /\ t \in DOMAIN trace_ownership'
          /\ Rank[trace_ownership'[t]] <= Rank[trace_ownership[t]]]_vars

\* a call took a trace from a detector of numerically greater rank and left
\* another trace with its owner
C22_Witness ==
    /\ Processed
    /\ \E j \in 1..Len(call.seen) :
          /\ Upgraded(call, j)
          /\ OwnerOf(trace_ownership, call.detections[j].trace_id) = call.detector_name
    /\ \E t \in DOMAIN trace_ownership : trace_ownership[t] # call.detector_name

\* the detectors whose batch held a detection of the trace
Submitters(trace_id) ==
    {fed_batches[i].detector_name :
        i \in {k \in 1..Len(fed_batches) :
                  \E j \in 1..Len(fed_batches[k].batch) :
                      fed_batches[k].batch[j].trace_id = trace_id}}

\* C23: when the four known detectors have each handed in a batch, in
\* whatever order, the ownership table holds the traces that received a
\* detection, each owned by the detector of numerically lowest rank among
\* those whose batch held a detection of it; the table is thus the same for
\* every order of the batches.
C23_OrderIndependent ==
    Len(fed_batches) = Cardinality(KnownNames) =>
        \A t \in TraceIds :
            LET best == CHOOSE b \in Submitters(t) :
                            \A o \in Submitters(t) : Rank[b] <= Rank[o]
            IN  IF Submitters(t) = {} THEN t \notin DOMAIN trace_ownership
                ELSE OwnerOf(trace_ownership, t) = best

C25_ReasonsFollowRanks ==
    \A k \in 1..Len(suppressed_detections), N \in AllNames :
        LET s == suppressed_detections[k] IN
        (\/ s.suppression_reason = "higher_priority_detector:" \o N
         \/ s.suppression_reason = "superseded_by:" \o N)
        => Rank[N] < Rank[s.detector]

\* the suppressed list holds a detection superseded by a detector and one
\* suppressed on arrival under it, of detectors of different ranks
C25_Witness ==
    /\ Len(suppressed_detections) = 2
    /\ suppressed_detections[1].suppression_reason =
          "superseded_by:RetryLoopDetector"
    /\ suppressed_detections[1].detector = "OverkillModelDetector"
    /\ suppressed_detections[2].suppression_reason =
          "higher_priority_detector:RetryLoopDetector"
    /\ suppressed_detections[2].detector = "CustomDetector"

====
